---- MODULE Spec2Model ----
(***************************************************************************)
(* A model of dodotable: the request-driven filters of condition.py, the  *)
(* order resolver, the Pager and the Table of schema.py.                   *)
(*                                                                         *)
(* Python values are modelled as strings; None is the distinguished value  *)
(* None below.  The outcome of a call is a record                          *)
(*   [kind |-> "pred", q |-> <predicate>]   a SQL predicate was returned   *)
(*   [kind |-> "none"]                      None was returned              *)
(*   [kind |-> "raise", exc |-> <class>]    an exception propagated        *)
(* A predicate is a record tagged by k: "in", "eq", "is_null",             *)
(* "isnot_null", "ilike", "false" or "or".                                 *)
(***************************************************************************)
EXTENDS Integers, Sequences, FiniteSets, TLC

VARIABLES
    request_args,   \* the request parameter mapping (key -> value, None = key absent)
    t_columns,      \* Table._columns: the declared columns, with their filters
    t_filters,      \* Table._filters
    rows,           \* Table.rows
    pager,          \* Table.pager / the Pager under construction
    session,        \* the records of the data source, in storage order
    call            \* the last operation performed and its outcome

vars == <<request_args, t_columns, t_filters, rows, pager, session, call>>

-----------------------------------------------------------------------------
(* Bounds of the model *)

MaxChoices == 2     \* declared choices of a SelectFilter
MaxColumns == 2     \* columns of a table

-----------------------------------------------------------------------------
(* Python values *)

None == "<None>"

\* Python truthiness of a str-or-None value: None and "" are falsy.
Truthy(v) == v # None /\ v # ""

\* Mapping.get(key, default) on the request parameters.
Get(args, key, default) ==
    IF key \in DOMAIN args /\ args[key] # None THEN args[key] ELSE default

Returned(q)  == [kind |-> "pred", q |-> q]
ReturnedNone == [kind |-> "none"]
Raised(exc) == [kind |-> "raise", exc |-> exc]

\* exc.py: BadChoice declares no __init__, so it inherits Exception's, which
\* takes no keyword arguments: constructing it with keywords raises TypeError
\* before the raise statement runs.
BadChoice(keywords) == IF keywords # {} THEN "TypeError" ELSE "BadChoice"

-----------------------------------------------------------------------------
(* util.camel_to_underscore and condition.create_search_name *)

ClassNames == {"AdminRole", "Music"}

\* The two regular-expression substitutions followed by lower(), on the class
\* names of the model.
camel_to_underscore(name) ==
    CASE name = "AdminRole" -> "admin_role"
      [] name = "Music"     -> "music"
      [] OTHER              -> name

create_search_name(name) ==
    [word |-> "search_" \o name \o ".word",
     type |-> "search_" \o name \o ".type"]

-----------------------------------------------------------------------------
(* SQL expressions built by the filters (sqlalchemy.sql.expression) *)

\* getattr(cls, attribute_name): the column expression of an entity attribute.
Attribute(cls, attribute_name) == [owner |-> cls, name |-> attribute_name]

in_(attribute, values)     == [k |-> "in", attr |-> attribute, vals |-> values]
eq(attribute, type, value) == [k |-> "eq", attr |-> attribute, val |-> [t |-> type, v |-> value]]
is_null(attribute)         == [k |-> "is_null", attr |-> attribute]
isnot_null(attribute)      == [k |-> "isnot_null", attr |-> attribute]
ilike(attribute, pattern)  == [k |-> "ilike", attr |-> attribute, pattern |-> pattern]
false                      == [k |-> "false"]
or_(clauses)               == [k |-> "or", args |-> clauses]

\* u'%{word}%'.format(word=word): format() renders None as the text "None".
Format(word) == IF word = None THEN "None" ELSE word
LikePattern(word) == <<"%", Format(word), "%">>

Range(seq) == {seq[i] : i \in DOMAIN seq}

-----------------------------------------------------------------------------
(* The value types a typed equality filter may declare, and their           *)
(* constructors int(), float() and decimal.Decimal() on the words of the    *)
(* model.  A constructor returns a value or raises.                         *)

ValueTypes == {"int", "float", "Decimal"}

Value(v)  == [ok |-> TRUE, v |-> v]
Throws(e) == [ok |-> FALSE, exc |-> e]

Coerce(type_, word) ==
    IF word = None THEN Throws("TypeError")
    ELSE CASE type_ = "int" ->
                CASE word = "12"  -> Value("12")
                  [] word = "012" -> Value("12")
                  [] OTHER        -> Throws("ValueError")
           [] type_ = "float" ->
                CASE word = "12"  -> Value("12.0")
                  [] word = "012" -> Value("12.0")
                  [] word = "1.5" -> Value("1.5")
                  [] OTHER        -> Throws("ValueError")
           [] type_ = "Decimal" ->
                CASE word = "12"  -> Value("12")
                  [] word = "012" -> Value("12")
                  [] word = "1.5" -> Value("1.5")
                  [] OTHER        -> Throws("InvalidOperation")

-----------------------------------------------------------------------------
(* Filter objects (condition.py constructors) *)

Choice(name) == [name |-> name, description |-> name]

SelectFilter(cls, attribute_name, choices, default) ==
    [class |-> "SelectFilter", cls |-> cls, attribute_name |-> attribute_name,
     attribute |-> Attribute(cls, attribute_name),
     choices |-> <<Choice("all")>> \o choices, default |-> default]

NullSelectableSelectFilter(cls, attribute_name, choices, default) ==
    [SelectFilter(cls, attribute_name, choices, default)
        EXCEPT !.class = "NullSelectableSelectFilter"]

Ilike(cls, attribute_name) ==
    [class |-> "Ilike", cls |-> cls, attribute_name |-> attribute_name,
     attribute |-> Attribute(cls, attribute_name)]

IlikeAlias(identifier, alias_attr) ==
    [class |-> "IlikeAlias", identifier |-> identifier, alias_attr |-> alias_attr]

Equal(cls, attribute_name, type_) ==
    [class |-> "Equal", cls |-> cls, attribute_name |-> attribute_name,
     attribute |-> Attribute(cls, attribute_name), type_ |-> type_]

EqualAlias(identifier, alias_attr, type_) ==
    [class |-> "EqualAlias", identifier |-> identifier, alias_attr |-> alias_attr,
     type_ |-> type_]

\* isinstance(f, Ilike): Ilike and its subclasses IlikeAlias, Equal, EqualAlias.
IsInstanceIlike(f) == f.class \in {"Ilike", "IlikeAlias", "Equal", "EqualAlias"}

-----------------------------------------------------------------------------
(* __query__ of the filter primitives *)

\* __query__ leaving the attribute unrestricted when the parameter is absent.
SelectFilter_query_unrestricted(f, args) ==
    LET arg_name == "select." \o f.attribute_name
        s        == Get(args, arg_name, f.default)
        choices  == [i \in DOMAIN f.choices |-> f.choices[i].name]
    IN  IF ~Truthy(s) THEN ReturnedNone
        ELSE IF s \notin Range(choices) THEN Raised(BadChoice({"description"}))
        ELSE IF s = "all" THEN ReturnedNone
        ELSE Returned(eq(f.attribute, "str", s))

SelectFilter_query(f, args) ==
    LET arg_name == "select." \o f.attribute_name
        s        == Get(args, arg_name, f.default)
        choices  == [i \in DOMAIN f.choices |-> f.choices[i].name]
    IN  IF ~Truthy(s) THEN Returned(in_(f.attribute, choices))
        ELSE IF s \notin Range(choices) THEN Raised(BadChoice({"description"}))
        ELSE IF s = "all" THEN ReturnedNone
        ELSE Returned(eq(f.attribute, "str", s))

NullSelectableSelectFilter_query(f, args) ==
    LET q        == SelectFilter_query(f, args)
        arg_name == "select." \o f.attribute_name
        s        == Get(args, arg_name, f.default)
    IN  IF q.kind = "raise" THEN q
        ELSE IF s = "null" THEN Returned(is_null(f.attribute))
        ELSE IF s = "not-null" THEN Returned(isnot_null(f.attribute))
        ELSE q

Ilike_query(f, args) ==
    LET name  == create_search_name(camel_to_underscore(f.cls))
        type_ == Get(args, name.type, None)
        word  == Get(args, name.word, None)
    IN  IF type_ = f.attribute_name
        THEN Returned(ilike(f.attribute, LikePattern(word)))
        ELSE ReturnedNone

IlikeAlias_query(f, args) ==
    LET name  == create_search_name(f.identifier)
        word  == Get(args, name.word, None)
        type  == Get(args, name.type, None)
    IN  IF Truthy(word) /\ type = f.alias_attr.name
        THEN Returned(ilike(f.alias_attr, LikePattern(word)))
        ELSE ReturnedNone

Equal_query(f, args) ==
    LET name  == create_search_name(camel_to_underscore(f.cls))
        type_ == Get(args, name.type, None)
        word  == Get(args, name.word, None)
        c     == Coerce(f.type_, word)
    IN  IF type_ = f.attribute_name
        THEN IF c.ok THEN Returned(eq(f.attribute, f.type_, c.v))
             ELSE IF c.exc = "ValueError" THEN Returned(false)
             ELSE Raised(c.exc)
        ELSE ReturnedNone

EqualAlias_query(f, args) ==
    LET name  == create_search_name(f.identifier)
        word  == Get(args, name.word, None)
        type  == Get(args, name.type, None)
        c     == Coerce(f.type_, word)
    IN  IF Truthy(word) /\ type = f.alias_attr.name
        THEN IF c.ok THEN Returned(eq(f.alias_attr, f.type_, c.v))
             ELSE IF c.exc = "ValueError" THEN Returned(false)
             ELSE Raised(c.exc)
        ELSE ReturnedNone

\* f.__query__() on a filter primitive, dispatched on its class.
Primitive_query(f, args) ==
    CASE f.class = "SelectFilter"               -> SelectFilter_query(f, args)
      [] f.class = "NullSelectableSelectFilter" -> NullSelectableSelectFilter_query(f, args)
      [] f.class = "Ilike"                      -> Ilike_query(f, args)
      [] f.class = "IlikeAlias"                 -> IlikeAlias_query(f, args)
      [] f.class = "Equal"                      -> Equal_query(f, args)
      [] f.class = "EqualAlias"                 -> EqualAlias_query(f, args)

-----------------------------------------------------------------------------
(* IlikeSet.__query__ *)

RECURSIVE Concat(_)
Concat(seqs) == IF seqs = <<>> THEN <<>> ELSE Head(seqs) \o Concat(Tail(seqs))

\* The filters of the visible columns only.
VisibleColumnFilters(columns) ==
    Concat([i \in DOMAIN columns |->
               IF columns[i].visible THEN columns[i].filters ELSE <<>>])

\* The filters visited by the two nested loops, in visiting order.
ColumnFilters(columns) == Concat([i \in DOMAIN columns |-> columns[i].filters])

\* The loop body over the remaining filters fs, with filter_ collected so far;
\* an exception raised by a filter's __query__ ends the loop and propagates.
RECURSIVE IlikeSet_collect(_, _, _)
IlikeSet_collect(fs, args, filter_) ==
    IF fs = <<>>
    THEN IF filter_ # <<>> THEN Returned(or_(filter_)) ELSE ReturnedNone
    ELSE LET f == Head(fs)
             r == Primitive_query(f, args)
         IN  IF ~IsInstanceIlike(f) THEN IlikeSet_collect(Tail(fs), args, filter_)
             ELSE IF r.kind = "raise" THEN r
             ELSE IF r.kind = "pred"
                  THEN IlikeSet_collect(Tail(fs), args, Append(filter_, r.q))
                  ELSE IlikeSet_collect(Tail(fs), args, filter_)

\* The loops run over the visible columns only.
IlikeSet_query_visible(columns, args) ==
    IlikeSet_collect(VisibleColumnFilters(columns), args, <<>>)

IlikeSet_query(columns, args) == IlikeSet_collect(ColumnFilters(columns), args, <<>>)

-----------------------------------------------------------------------------
(* The data source: what a predicate selects.  A record of the data source  *)
(* maps attribute names to stored values (None is SQL NULL); a comparison   *)
(* with NULL is not true.                                                   *)

\* The text between the two "%" of a pattern occurs in the stored text,
\* ignoring case.  The empty text occurs in every text.
LikeMatches(text, pattern) ==
    LET w == pattern[2]
    IN  \/ w = ""
        \/ text = "Abc"  /\ w \in {"ab", "abc", "Abc"}
        \/ text = "12ab" /\ w \in {"ab", "12"}
        \/ text = w

RECURSIVE Holds(_, _)
Holds(q, rec) ==
    CASE q.k = "in"         -> rec[q.attr.name] # None /\ rec[q.attr.name] \in Range(q.vals)
      [] q.k = "eq"         -> rec[q.attr.name] # None /\ rec[q.attr.name] = q.val.v
      [] q.k = "is_null"    -> rec[q.attr.name] = None
      [] q.k = "isnot_null" -> rec[q.attr.name] # None
      [] q.k = "ilike"      -> rec[q.attr.name] # None /\ LikeMatches(rec[q.attr.name], q.pattern)
      [] q.k = "false"      -> FALSE
      [] q.k = "or"         -> \E i \in DOMAIN q.args : Holds(q.args[i], rec)

-----------------------------------------------------------------------------
(* Request parameters and declarations drawn by the specifications *)

SelectKey == "select.genre"
WordKey   == "search_admin_role.word"
TypeKey   == "search_admin_role.type"
ArgKeys   == {SelectKey, WordKey, TypeKey, "order_by"}

RequestArgs(select, word, type) ==
    [key \in ArgKeys |->
        CASE key = SelectKey -> select
          [] key = WordKey   -> word
          [] key = TypeKey   -> type
          [] OTHER           -> None]

SelectValues == {None, "", "all", "rock", "jazz", "null", "not-null", "punk"}
ChoiceNames  == {"rock", "jazz", "null", "not-null"}
Defaults     == {None, "rock", "punk"}

\* Lists of at most n distinct elements of S.
RECURSIVE ListsUpTo(_, _)
ListsUpTo(S, n) ==
    IF n = 0 THEN {<<>>}
    ELSE LET shorter == ListsUpTo(S, n - 1)
         IN  shorter \cup {Append(l, x) : l \in shorter, x \in S}

DistinctLists(S, n) ==
    {l \in ListsUpTo(S, n) : \A i, j \in DOMAIN l : i # j => l[i] # l[j]}

ChoiceLists ==
    {[i \in DOMAIN l |-> Choice(l[i])] : l \in DistinctLists(ChoiceNames, MaxChoices)}

NoCall  == [op |-> "none"]
NoPager == [class |-> "NoneType"]

-----------------------------------------------------------------------------
(* Specification of the choice filters: a request arrives, a SelectFilter   *)
(* or NullSelectableSelectFilter is declared for it and queried.            *)

InitSelect ==
    /\ request_args \in {RequestArgs(s, None, None) : s \in SelectValues}
    /\ t_columns = <<>>
    /\ t_filters = <<>>
    /\ rows = <<>>
    /\ pager = NoPager
    /\ session = <<>>
    /\ call = NoCall

QuerySelectFilter ==
    /\ call = NoCall
    /\ \E choices \in ChoiceLists, default \in Defaults :
          LET f == SelectFilter("AdminRole", "genre", choices, default)
          IN  call' = [op |-> "SelectFilter.__query__", f |-> f,
                       out |-> SelectFilter_query(f, request_args)]
    /\ UNCHANGED <<request_args, t_columns, t_filters, rows, pager, session>>

QueryNullSelectableSelectFilter ==
    /\ call = NoCall
    /\ \E choices \in ChoiceLists, default \in Defaults :
          LET f == NullSelectableSelectFilter("AdminRole", "genre", choices, default)
          IN  call' = [op |-> "NullSelectableSelectFilter.__query__", f |-> f,
                       out |-> NullSelectableSelectFilter_query(f, request_args)]
    /\ UNCHANGED <<request_args, t_columns, t_filters, rows, pager, session>>

NextSelect == QuerySelectFilter \/ QueryNullSelectableSelectFilter

SpecSelect == InitSelect /\ [][NextSelect]_vars

\* The stored values of the filtered attribute a data source may hold.
StoredGenres == {None, "rock", "jazz", "all", "punk", "null", "not-null"}
GenreRecord(v) == [genre |-> v]

\* The names of the choices a filter was declared with ("all" is prepended
\* by the constructor).
DeclaredNames(f) == {f.choices[i].name : i \in 2..Len(f.choices)}

SelectAbsent == request_args[SelectKey] = None

\* C1 as stated: when select.<attribute> is absent and no default is
\* configured, the filter yields a predicate that holds of exactly the stored
\* values in the declared choice set C.
C1_AbsentRestrictsToDeclared ==
    (call.op = "SelectFilter.__query__" /\ SelectAbsent /\ call.f.default = None)
    => /\ call.out.kind = "pred"
       /\ \A v \in StoredGenres :
             Holds(call.out.q, GenreRecord(v)) <=> v \in DeclaredNames(call.f)

\* C1 amended: when select.<attribute> is absent and no default is
\* configured, the filter yields a predicate that holds of exactly the stored
\* values in C or equal to the implicit choice "all"; it never yields no
\* predicate.
C1_AbsentRestrictsToDeclaredOrAll ==
    (call.op = "SelectFilter.__query__" /\ SelectAbsent /\ call.f.default = None)
    => /\ call.out.kind = "pred"
       /\ \A v \in StoredGenres :
             Holds(call.out.q, GenreRecord(v))
                <=> v \in DeclaredNames(call.f) \cup {"all"}

\* A filter declared with two choices is queried for a request without the
\* parameter and restricts the attribute.
C1_Witness ==
    /\ call.op = "SelectFilter.__query__"
    /\ SelectAbsent
    /\ call.f.default = None
    /\ DeclaredNames(call.f) = {"rock", "jazz"}
    /\ call.out.kind = "pred"
    /\ ~Holds(call.out.q, GenreRecord("punk"))

\* C2: when select.<attribute> is supplied with a value outside C and other
\* than "all", evaluation fails with BadChoice; it returns neither a predicate
\* nor None.  (Stated for the non-empty values; the empty value, which the
\* code treats like an absent parameter, is a second case that does not fail.)
C2_OutsideChoiceRaisesBadChoice ==
    (/\ call.op = "SelectFilter.__query__"
     /\ Truthy(request_args[SelectKey])
     /\ request_args[SelectKey] \notin DeclaredNames(call.f) \cup {"all"})
    => call.out = Raised("BadChoice")

\* C3: a null-aware filter maps select.<attribute> = "null" to the is-null
\* predicate and "not-null" to the is-not-null predicate, whatever choices
\* were declared; it neither fails nor yields the equality predicate.
C3_NullTokensMapToNullPredicates ==
    call.op = "NullSelectableSelectFilter.__query__"
    => /\ request_args[SelectKey] = "null"
            => call.out = Returned(is_null(call.f.attribute))
       /\ request_args[SelectKey] = "not-null"
            => call.out = Returned(isnot_null(call.f.attribute))

-----------------------------------------------------------------------------
(* Order (condition.py) *)

DESCENDANT == "desc"
ASCENDANT  == "asc"

asc_order_name(attr)  == attr \o "." \o ASCENDANT
desc_order_name(attr) == attr \o "." \o DESCENDANT

(* An order_by argument is a Python value [type, v]: for type "str", v is   *)
(* the text as a sequence of atoms, each a comma ",", a blank " " or a      *)
(* maximal run of other characters (a word); for a tuple or a list, v holds *)
(* the items; for None, v is empty.                                         *)
PyNone     == [type |-> "NoneType", v |-> <<>>]
PyStr(v)   == [type |-> "str", v |-> v]
PyTuple(v) == [type |-> "tuple", v |-> v]
PyList(v)  == [type |-> "list", v |-> v]

\* str.split(','): the pieces between the commas (one piece when there is none).
RECURSIVE Split(_, _)
Split(text, piece) ==
    IF text = <<>> THEN <<piece>>
    ELSE IF Head(text) = "," THEN <<piece>> \o Split(Tail(text), <<>>)
    ELSE Split(Tail(text), Append(piece, Head(text)))

\* str.strip(): leading and trailing blanks removed.
RECURSIVE LStrip(_)
LStrip(text) ==
    IF text # <<>> /\ Head(text) = " " THEN LStrip(Tail(text)) ELSE text

RECURSIVE RStrip(_)
RStrip(text) ==
    IF text # <<>> /\ text[Len(text)] = " "
    THEN RStrip(SubSeq(text, 1, Len(text) - 1)) ELSE text

Strip(text) == RStrip(LStrip(text))

\* The for loop of of_column over the remaining pieces, order being the
\* direction found so far.
RECURSIVE of_column_loop(_, _, _, _)
of_column_loop(pieces, asc_order, desc_order, order) ==
    IF pieces = <<>> THEN order
    ELSE LET o == Head(pieces)
         IN  IF Strip(o) = <<asc_order>>
             THEN of_column_loop(Tail(pieces), asc_order, desc_order, ASCENDANT)
             ELSE IF Strip(o) = <<desc_order>>
             THEN of_column_loop(Tail(pieces), asc_order, desc_order, DESCENDANT)
             ELSE of_column_loop(Tail(pieces), asc_order, desc_order, order)

\* of_column returning at the first piece that names the attribute.
RECURSIVE of_column_first_loop(_, _, _)
of_column_first_loop(pieces, asc_order, desc_order) ==
    IF pieces = <<>> THEN None
    ELSE IF Strip(Head(pieces)) = <<asc_order>> THEN ASCENDANT
    ELSE IF Strip(Head(pieces)) = <<desc_order>> THEN DESCENDANT
    ELSE of_column_first_loop(Tail(pieces), asc_order, desc_order)

of_column_first_wins(attr, order_by) ==
    IF order_by.v = <<>> \/ order_by.type # "str" THEN None
    ELSE of_column_first_loop(Split(order_by.v, <<>>),
                              asc_order_name(attr), desc_order_name(attr))

of_column(attr, order_by) ==
    IF order_by.v = <<>> \/ order_by.type # "str" THEN None
    ELSE of_column_loop(Split(order_by.v, <<>>),
                        asc_order_name(attr), desc_order_name(attr), None)

-----------------------------------------------------------------------------
(* Specification of the order resolver: of_column applied to an attribute   *)
(* name and an order_by argument.                                           *)

MaxOrderLen == 4    \* atoms of an order_by text

OrderAtoms == {",", " ", "name.asc", "name.desc", "other.desc"}
IsWord(a)  == a \notin {",", " "}

\* The texts of at most MaxOrderLen atoms (two words never adjoin: they
\* would be one word).
OrderTexts ==
    {t \in ListsUpTo(OrderAtoms, MaxOrderLen) :
        \A i \in 1..(Len(t) - 1) : ~(IsWord(t[i]) /\ IsWord(t[i + 1]))}

OrderByValues ==
    {PyNone, PyTuple(<<>>), PyList(<<"name.asc">>)} \cup {PyStr(t) : t \in OrderTexts}

OrderAttrs == {"name", "other", "age"}

InitOrder ==
    /\ request_args = RequestArgs(None, None, None)
    /\ t_columns = <<>>
    /\ t_filters = <<>>
    /\ rows = <<>>
    /\ pager = NoPager
    /\ session = <<>>
    /\ call = NoCall

OfColumn ==
    /\ call = NoCall
    /\ \E attr \in OrderAttrs, order_by \in OrderByValues :
          call' = [op |-> "Order.of_column", attr |-> attr, order_by |-> order_by,
                   out |-> of_column(attr, order_by)]
    /\ UNCHANGED <<request_args, t_columns, t_filters, rows, pager, session>>

NextOrder == OfColumn

SpecOrder == InitOrder /\ [][NextOrder]_vars

\* The direction a piece of the list names for attr, if any.
NamedExactly(piece, attr) ==
    IF piece = <<asc_order_name(attr)>> THEN ASCENDANT
    ELSE IF piece = <<desc_order_name(attr)>> THEN DESCENDANT
    ELSE None

\* The direction of the last piece that names attr (named(piece) # None),
\* and None when no piece does.
LastNamed(pieces, named(_)) ==
    LET hits == {i \in DOMAIN pieces : named(pieces[i]) # None}
    IN  IF hits = {} THEN None
        ELSE named(pieces[CHOOSE i \in hits : \A j \in hits : j <= i])

NoOrderGiven(order_by) == order_by.type # "str" \/ order_by.v = <<>>

\* C6 as stated: the result is none for an absent, empty or non-string
\* order_by, and otherwise the direction of the last comma-separated token
\* that equals "<attribute>.asc" or "<attribute>.desc".
C6_LastEqualTokenWins ==
    call.op = "Order.of_column"
    => call.out =
         IF NoOrderGiven(call.order_by) THEN None
         ELSE LET named(piece) == NamedExactly(piece, call.attr)
              IN  LastNamed(Split(call.order_by.v, <<>>), named)

\* C6 amended: as above, a token being compared after the blanks around it
\* are stripped.
C6_LastStrippedTokenWins ==
    call.op = "Order.of_column"
    => call.out =
         IF NoOrderGiven(call.order_by) THEN None
         ELSE LET named(piece) == NamedExactly(Strip(piece), call.attr)
              IN  LastNamed(Split(call.order_by.v, <<>>), named)

\* A later token overrides an earlier one naming the same attribute, and the
\* token is padded with blanks.
C6_Witness ==
    /\ call.op = "Order.of_column"
    /\ call.order_by = PyStr(<<"name.asc", ",", " ", "name.desc">>)
    /\ call.attr = "name"
    /\ call.out = DESCENDANT

-----------------------------------------------------------------------------
(* Pager (schema.py) *)

PyInt(n) == [type |-> "int", n |-> n]
PyText(s) == [type |-> "str", s |-> s]

\* int(x): an int is itself, a text is parsed, None is a TypeError.
IntOf(x) ==
    CASE x.type = "int"      -> Value(x.n)
      [] x.type = "str"      -> CASE x.s = "2"  -> Value(2)
                                  [] x.s = "-2" -> Value(-2)
                                  [] OTHER      -> Throws("ValueError")
      [] x.type = "NoneType" -> Throws("TypeError")

\* Python's a // b and ceil(a / b) on integers, b # 0.
FloorDiv(a, b) == IF b > 0 THEN a \div b ELSE (0 - a) \div (0 - b)
CeilDiv(a, b)  == 0 - FloorDiv(0 - a, b)

PagerObject(limit, offset, count, padding) ==
    [class |-> "Pager", limit |-> limit, offset |-> offset, count |-> count,
     padding |-> padding]

Constructed(obj) == [kind |-> "ok", obj |-> obj]

\* Pager.__init__: the four conversions in order inside the try; a ValueError
\* resets the four fields, any other exception propagates.
Pager_init(limit, offset, count, padding) ==
    LET conv   == <<IntOf(limit), IntOf(offset), IntOf(count), IntOf(padding)>>
        failed == {i \in 1..4 : ~conv[i].ok}
        first  == CHOOSE i \in failed : \A j \in failed : i <= j
    IN  IF failed = {}
        THEN Constructed(PagerObject(conv[1].v, conv[2].v, conv[3].v, conv[4].v))
        ELSE IF conv[first].exc = "ValueError"
        THEN Constructed(PagerObject(10, 0, 0, 10))
        ELSE Raised(conv[first].exc)

Page(selected, number, limit, offset) ==
    [selected |-> selected, number |-> number, limit |-> limit, offset |-> offset]

\* Pager.range from the while loop on: i is the loop variable.
RECURSIVE range_loop(_, _, _, _)
range_loop(i, end, max_, min_) ==
    IF i <= end /\ i <= max_
    THEN (IF i > min_ THEN <<i>> ELSE <<>>) \o range_loop(i + 1, end, max_, min_)
    ELSE IF i < max_ THEN <<max_>> ELSE <<>>

\* Pager.range: the sequence the generator yields.
Pager_range(start, end, max_, min_) == <<min_>> \o range_loop(start, end, max_, min_)

page_count(p)         == CeilDiv(p.count, p.limit)
current_page_count(p) == FloorDiv(p.offset, p.limit) + 1
window_start(p)       == FloorDiv(current_page_count(p) - 1, p.padding) * 10 + 1

\* Pager.pages
Pager_pages(p) ==
    IF p.limit = 0 \/ p.padding = 0 THEN Raised("ZeroDivisionError")
    ELSE LET start   == window_start(p)
             numbers == Pager_range(start, start + p.padding - 1, page_count(p), 1)
         IN  [kind |-> "ok",
              pages |-> [i \in DOMAIN numbers |->
                            Page(numbers[i] = current_page_count(p), numbers[i],
                                 p.limit, p.limit * (numbers[i] - 1))]]

-----------------------------------------------------------------------------
(* Specification of the Pager: a Pager is constructed from four arguments   *)
(* and its pages are read.                                                  *)

MaxLimit   == 2
MaxOffset  == 4
MaxCount   == 12
MaxPadding == 3

NonInts == {PyText("x"), PyText("2"), PyText("-2"), PyNone}
Ints(max) == {PyInt(n) : n \in (0 - 1)..max}

InitPager ==
    /\ request_args = RequestArgs(None, None, None)
    /\ t_columns = <<>>
    /\ t_filters = <<>>
    /\ rows = <<>>
    /\ pager = NoPager
    /\ session = <<>>
    /\ call = NoCall

NewPager ==
    /\ call = NoCall
    /\ \E limit \in Ints(MaxLimit) \cup NonInts, offset \in Ints(MaxOffset) \cup NonInts,
          count \in Ints(MaxCount) \cup NonInts, padding \in Ints(MaxPadding) \cup NonInts :
          LET out == Pager_init(limit, offset, count, padding)
          IN  /\ call' = [op |-> "Pager.__init__",
                          args |-> <<limit, offset, count, padding>>, out |-> out]
              /\ pager' = IF out.kind = "ok" THEN out.obj ELSE NoPager
    /\ UNCHANGED <<request_args, t_columns, t_filters, rows, session>>

ReadPages ==
    /\ call.op = "Pager.__init__"
    /\ pager # NoPager
    /\ call' = [op |-> "Pager.pages", out |-> Pager_pages(pager)]
    /\ UNCHANGED <<request_args, t_columns, t_filters, rows, pager, session>>

NextPager == NewPager \/ ReadPages

SpecPager == InitPager /\ [][NextPager]_vars

\* The ascending sequence of the elements of a finite set of integers.
RECURSIVE Ascending(_)
Ascending(S) ==
    IF S = {} THEN <<>>
    ELSE LET m == CHOOSE x \in S : \A y \in S : x <= y
         IN  <<m>> \o Ascending(S \ {m})

PageNumbers(pages) == [i \in DOMAIN pages |-> pages[i].number]

\* C8: for count >= 0, limit > 0, offset >= 0 and padding > 0 the emitted page
\* numbers are page 1, then the candidates of start..start+padding-1 that are
\* > 1 and <= pageCount, then pageCount whenever the pages emitted so far
\* stop short of it.
C8_WindowEndsWithLastPage ==
    (/\ call.op = "Pager.pages"
     /\ pager.count >= 0 /\ pager.limit > 0 /\ pager.offset >= 0 /\ pager.padding > 0)
    => LET pageCount   == CeilDiv(pager.count, pager.limit)
           currentPage == FloorDiv(pager.offset, pager.limit) + 1
           start       == FloorDiv(currentPage - 1, pager.padding) * 10 + 1
           window      == {n \in start..(start + pager.padding - 1) :
                              n > 1 /\ n <= pageCount}
           reached     == IF window = {} THEN 1
                          ELSE CHOOSE n \in window : \A m \in window : m <= n
       IN  /\ call.out.kind = "ok"
           /\ PageNumbers(call.out.pages) =
                 (<<1>> \o Ascending(window))
                 \o (IF reached < pageCount THEN <<pageCount>> ELSE <<>>)

\* An argument the Pager accepts as it is: a non-negative integer, given as
\* an int or as the text of one.
ValidArgument(x) == IntOf(x).ok /\ IntOf(x).v >= 0

\* C9: construction never fails, leaves four non-negative integers, and
\* resets all four fields to 10, 0, 0, 10 when an argument is invalid.
C9_ConstructionFailsSoft ==
    call.op = "Pager.__init__"
    => /\ call.out.kind = "ok"
       /\ \A field \in {pager.limit, pager.offset, pager.count, pager.padding} :
             field \in Nat
       /\ (\E i \in 1..4 : ~ValidArgument(call.args[i]))
             => pager = PagerObject(10, 0, 0, 10)

-----------------------------------------------------------------------------
(* Column and Table (schema.py) *)

\* Column.__init__: the direction is resolved from the order_by argument.
Column(label, attr, order_by, filters, visible) ==
    [label |-> label, attr |-> attr, filters |-> filters,
     order_by |-> of_column(attr, order_by), visible |-> visible]

\* util._get_data on a record of the data source (attribute names of the
\* model have one segment): the attribute, or the default when it is missing.
get_data(data, attribute_name, default) ==
    IF attribute_name \in DOMAIN data THEN data[attribute_name] ELSE default

\* The positions in _columns of the visible columns, in declaration order.
RECURSIVE VisibleFrom(_, _)
VisibleFrom(columns, i) ==
    IF i > Len(columns) THEN <<>>
    ELSE (IF columns[i].visible THEN <<i>> ELSE <<>>) \o VisibleFrom(columns, i + 1)

VisibleIndexes(columns) == VisibleFrom(columns, 1)

\* Table.columns
Table_columns(columns) ==
    [j \in DOMAIN VisibleIndexes(columns) |-> columns[VisibleIndexes(columns)[j]]]

\* Order.__init__ and Order.__query__: desc(attribute) or asc(attribute).
Order(cls, attribute_name, order) ==
    [cls |-> cls, attribute |-> attribute_name,
     order |-> IF Truthy(order) THEN order ELSE DESCENDANT]

Order_query(o) == [fn |-> o.order, attribute |-> o.attribute]

TableClass == "AdminRole"

\* _order_queries falling back on the first declared column, visible or not.
Table_order_queries_first_declared(columns) ==
    LET visible == Table_columns(columns)
        ordered == SelectSeq(visible, LAMBDA column : Truthy(column.order_by))
        order   == [j \in DOMAIN ordered |->
                       Order_query(Order(TableClass, ordered[j].attr, ordered[j].order_by))]
    IN  IF order # <<>> THEN [kind |-> "ok", order |-> order, columns |-> columns]
        ELSE IF columns = <<>> THEN Raised("IndexError")
        ELSE LET o == Order(TableClass, columns[1].attr, None)
             IN  [kind |-> "ok", order |-> <<Order_query(o)>>,
                  columns |-> [columns EXCEPT ![1].order_by = o.order]]

\* _order_queries whose fallback orders descending and records the opposite
\* direction on the column.
Table_order_queries_flipping(columns) ==
    LET visible == Table_columns(columns)
        ordered == SelectSeq(visible, LAMBDA column : Truthy(column.order_by))
        order   == [j \in DOMAIN ordered |->
                       Order_query(Order(TableClass, ordered[j].attr, ordered[j].order_by))]
    IN  IF order # <<>> THEN [kind |-> "ok", order |-> order, columns |-> columns]
        ELSE IF visible = <<>> THEN Raised("IndexError")
        ELSE LET first == VisibleIndexes(columns)[1]
                 o     == Order(TableClass, columns[first].attr, None)
             IN  [kind |-> "ok", order |-> <<Order_query(o)>>,
                  columns |-> [columns EXCEPT ![first].order_by = ASCENDANT]]

\* Table._order_queries: the order clauses of the visible columns that have a
\* direction; when there is none, descending order on the first visible
\* column, whose order_by is set.  columns[0] of an empty list is an IndexError.
Table_order_queries(columns) ==
    LET visible == Table_columns(columns)
        ordered == SelectSeq(visible, LAMBDA column : Truthy(column.order_by))
        order   == [j \in DOMAIN ordered |->
                       Order_query(Order(TableClass, ordered[j].attr, ordered[j].order_by))]
    IN  IF order # <<>> THEN [kind |-> "ok", order |-> order, columns |-> columns]
        ELSE IF visible = <<>> THEN Raised("IndexError")
        ELSE LET first == VisibleIndexes(columns)[1]
                 o     == Order(TableClass, columns[first].attr, None)
             IN  [kind |-> "ok", order |-> <<Order_query(o)>>,
                  columns |-> [columns EXCEPT ![first].order_by = o.order]]

\* Table-level filters besides the primitives: IlikeSet(table, request_args)
\* and helper.Limit, whose __query__ returns None.
IlikeSet ==
    [class |-> "IlikeSet",
     arg_name |-> create_search_name(camel_to_underscore(TableClass)).word,
     arg_type_name |-> create_search_name(camel_to_underscore(TableClass)).type]

Limit == [class |-> "Limit", arg_type_name |-> "limit_" \o camel_to_underscore(TableClass)]

\* filter.__query__() for a filter of Table._filters.
Filter_query(f, columns, args) ==
    CASE f.class = "IlikeSet" -> IlikeSet_query(columns, args)
      [] f.class = "Limit"    -> ReturnedNone
      [] OTHER                -> Primitive_query(f, args)

\* Table.build_base_query over the remaining filters fs: where holds the
\* predicates applied so far; a filter that raises aborts the construction.
RECURSIVE base_query_loop(_, _, _, _)
base_query_loop(fs, columns, args, where) ==
    IF fs = <<>> THEN [kind |-> "ok", where |-> where]
    ELSE LET r == Filter_query(Head(fs), columns, args)
         IN  IF r.kind = "raise" THEN r
             ELSE IF r.kind = "pred"
             THEN base_query_loop(Tail(fs), columns, args, Append(where, r.q))
             ELSE base_query_loop(Tail(fs), columns, args, where)

build_base_query(filters, columns, args) == base_query_loop(filters, columns, args, <<>>)

\* The records of the data source a query with these predicates selects, in
\* storage order.
Selected(records, where) ==
    SelectSeq(records, LAMBDA rec : \A i \in DOMAIN where : Holds(where[i], rec))

\* count taking the first filter of the table only.
Table_count_first_filter(filters, columns, args, records) ==
    LET base == build_base_query(IF filters = <<>> THEN <<>> ELSE <<Head(filters)>>,
                                 columns, args)
    IN  IF base.kind = "raise" THEN base
        ELSE [kind |-> "ok", count |-> Len(Selected(records, base.where))]

\* Table.count
Table_count(filters, columns, args, records) ==
    LET base == build_base_query(filters, columns, args)
    IN  IF base.kind = "raise" THEN base
        ELSE [kind |-> "ok", count |-> Len(Selected(records, base.where))]

-----------------------------------------------------------------------------
(* Specification of the search filters: a request arrives for a table whose *)
(* columns carry filters; one Ilike, IlikeAlias, Equal or EqualAlias is     *)
(* declared and queried, or the table's IlikeSet is queried.                *)

Words      == {None, "", "ab", "12", "1.5"}
TypeValues == {None, "name", "age", "x"}

SearchAttrs == {"name", "age"}
Identifiers == {"admin_role", "other"}
AliasAttr(name) == [owner |-> "alias", name |-> name]

\* The columns a table of this specification is declared with: one filter
\* each at most, and one column hidden.
SearchColumns ==
    {Column("Label", "label", PyNone, <<>>, TRUE),
     Column("Name", "name", PyNone, <<Ilike(TableClass, "name")>>, TRUE),
     Column("Name", "name", PyNone, <<Ilike(TableClass, "name")>>, FALSE),
     Column("Age", "age", PyNone, <<Ilike(TableClass, "age")>>, TRUE),
     Column("Age", "age", PyNone, <<Equal(TableClass, "age", "int")>>, TRUE),
     Column("Alias", "alias", PyNone, <<IlikeAlias("admin_role", AliasAttr("name"))>>, TRUE),
     Column("Genre", "genre", PyNone,
            <<SelectFilter(TableClass, "genre", <<Choice("rock")>>, None)>>, TRUE)}

InitSearch ==
    /\ request_args \in {RequestArgs(None, w, t) : w \in Words, t \in TypeValues}
    /\ t_columns \in ListsUpTo(SearchColumns, MaxColumns)
    /\ t_filters = <<>>
    /\ rows = <<>>
    /\ pager = NoPager
    /\ session = <<>>
    /\ call = NoCall

QueryIlike ==
    /\ call = NoCall
    /\ \E attr \in SearchAttrs :
          LET f == Ilike(TableClass, attr)
          IN  call' = [op |-> "Ilike.__query__", f |-> f,
                       out |-> Ilike_query(f, request_args)]
    /\ UNCHANGED <<request_args, t_columns, t_filters, rows, pager, session>>

QueryIlikeAlias ==
    /\ call = NoCall
    /\ \E identifier \in Identifiers, attr \in SearchAttrs :
          LET f == IlikeAlias(identifier, AliasAttr(attr))
          IN  call' = [op |-> "IlikeAlias.__query__", f |-> f,
                       out |-> IlikeAlias_query(f, request_args)]
    /\ UNCHANGED <<request_args, t_columns, t_filters, rows, pager, session>>

QueryEqual ==
    /\ call = NoCall
    /\ \E attr \in SearchAttrs, type_ \in ValueTypes :
          LET f == Equal(TableClass, attr, type_)
          IN  call' = [op |-> "Equal.__query__", f |-> f,
                       out |-> Equal_query(f, request_args)]
    /\ UNCHANGED <<request_args, t_columns, t_filters, rows, pager, session>>

QueryEqualAlias ==
    /\ call = NoCall
    /\ \E identifier \in Identifiers, attr \in SearchAttrs, type_ \in ValueTypes :
          LET f == EqualAlias(identifier, AliasAttr(attr), type_)
          IN  call' = [op |-> "EqualAlias.__query__", f |-> f,
                       out |-> EqualAlias_query(f, request_args)]
    /\ UNCHANGED <<request_args, t_columns, t_filters, rows, pager, session>>

QueryIlikeSet ==
    /\ call = NoCall
    /\ call' = [op |-> "IlikeSet.__query__", f |-> IlikeSet,
                out |-> IlikeSet_query(t_columns, request_args)]
    /\ UNCHANGED <<request_args, t_columns, t_filters, rows, pager, session>>

NextSearch ==
    \/ QueryIlike
    \/ QueryIlikeAlias
    \/ QueryEqual
    \/ QueryEqualAlias
    \/ QueryIlikeSet

SpecSearch == InitSearch /\ [][NextSearch]_vars

\* The type parameter of the request a search filter reads, and the
\* attribute name it must equal for the filter to be active.
TypeParamOf(f) ==
    IF f.class \in {"IlikeAlias", "EqualAlias"}
    THEN Get(request_args, create_search_name(f.identifier).type, None)
    ELSE Get(request_args, create_search_name(camel_to_underscore(f.cls)).type, None)

WordParamOf(f) ==
    IF f.class \in {"IlikeAlias", "EqualAlias"}
    THEN Get(request_args, create_search_name(f.identifier).word, None)
    ELSE Get(request_args, create_search_name(camel_to_underscore(f.cls)).word, None)

OwnName(f) ==
    IF f.class \in {"IlikeAlias", "EqualAlias"} THEN f.alias_attr.name
    ELSE f.attribute_name

\* C4: an active typed equality filter (type parameter = its attribute name)
\* whose word, absent words included, cannot be coerced into the declared
\* type returns the always-false predicate and does not raise.
C4_CoercionFailureIsFalse ==
    (/\ call.op \in {"Equal.__query__", "EqualAlias.__query__"}
     /\ TypeParamOf(call.f) = OwnName(call.f)
     /\ ~Coerce(call.f.type_, WordParamOf(call.f)).ok)
    => call.out = Returned(false)

\* The outcomes of the filters of the given classes attached to the columns,
\* in column and filter order.
OutcomesOf(classes) ==
    LET fs == SelectSeq(ColumnFilters(t_columns), LAMBDA f : f.class \in classes)
    IN  [i \in DOMAIN fs |-> Primitive_query(fs[i], request_args)]

\* The OR of the predicates among the outcomes, and None when there is none.
OrOfActive(outcomes) ==
    LET active == SelectSeq(outcomes, LAMBDA r : r.kind = "pred")
    IN  IF active = <<>> THEN ReturnedNone
        ELSE Returned(or_([i \in DOMAIN active |-> active[i].q]))

\* C5 as stated: IlikeSet returns the OR of exactly the predicates of the
\* active substring filters (Ilike, IlikeAlias) of the table's columns, and
\* no predicate when none is active.
C5_OrOfActiveSubstringFilters ==
    call.op = "IlikeSet.__query__"
    => call.out = OrOfActive(OutcomesOf({"Ilike", "IlikeAlias"}))

\* C5 amended: IlikeSet returns the OR of the predicates of the active
\* filters derived from Ilike (Ilike, IlikeAlias, Equal, EqualAlias) of all
\* declared columns, hidden ones included, in column order, and no predicate
\* when none is active; when one of these filters raises, the first such
\* exception propagates.
C5_OrOfActiveIlikeInstances ==
    call.op = "IlikeSet.__query__"
    => LET outcomes == OutcomesOf({"Ilike", "IlikeAlias", "Equal", "EqualAlias"})
           raising  == {i \in DOMAIN outcomes : outcomes[i].kind = "raise"}
       IN  IF raising # {}
           THEN call.out = outcomes[CHOOSE i \in raising : \A j \in raising : i <= j]
           ELSE call.out = OrOfActive(outcomes)

\* Two columns with an active filter each, a substring filter and a typed
\* equality: IlikeSet returns the OR of both predicates.
C5_Witness ==
    /\ call.op = "IlikeSet.__query__"
    /\ Len(t_columns) = 2
    /\ call.out.kind = "pred"
    /\ Len(call.out.q.args) = 2
    /\ call.out.q.args[1].k = "ilike"
    /\ call.out.q.args[2].k = "eq"

-----------------------------------------------------------------------------
(* The query a Table builds, and what the data source returns for it *)

\* The collation of the stored values of one attribute.
SortRank(v) ==
    CASE v \in {"7", "12ab", "all"} -> 1
      [] v \in {"12", "Abc", "jazz"} -> 2
      [] OTHER                       -> 3

\* Record a comes strictly before record b under the order clauses.
Before(a, b, order) ==
    \E k \in DOMAIN order :
        /\ \A m \in 1..(k - 1) : a[order[m].attribute] = b[order[m].attribute]
        /\ IF order[k].fn = ASCENDANT
           THEN SortRank(a[order[k].attribute]) < SortRank(b[order[k].attribute])
           ELSE SortRank(a[order[k].attribute]) > SortRank(b[order[k].attribute])

\* The sequences in which the data source may return the records under the
\* order clauses: records that tie on every clause come in any order.
QueryResults(records, order) ==
    LET n     == Len(records)
        perms == {f \in [1..n -> 1..n] : \A i, j \in 1..n : i # j => f[i] # f[j]}
    IN  {[i \in 1..n |-> records[f[i]]] : f \in
            {g \in perms : \A i, j \in 1..n :
                 i < j => ~Before(records[g[j]], records[g[i]], order)}}

\* query.offset(offset).limit(limit)
Slice(result, offset, limit) ==
    SubSeq(result, offset + 1, IF offset + limit < Len(result) THEN offset + limit
                               ELSE Len(result))

\* Column.__cell__
Cell(col, row, data, attribute_name) ==
    [col |-> col, row |-> row, data |-> get_data(data, attribute_name, None)]

\* The body of the outer loop of select for record i: a Row is filled by the
\* inner loop over the visible columns, whose body appends the column's cell
\* and then evaluates the name `default`, which is bound nowhere: with a
\* visible column the first pass ends in a NameError, without one the Row
\* stays empty.
select_row(i, record, visible) ==
    IF visible = <<>> THEN Value(<<>>)
    ELSE LET first == Cell(0, i, record, visible[1].attr)
         IN  Throws("NameError")

\* Table.select(offset, limit) for one answer of the data source to the built
\* query: the outcome and the fields of the table afterwards.
Table_select(offset, limit, filters, columns, args, records, old_pager, result) ==
    LET base == build_base_query(filters, columns, args)
        ord  == Table_order_queries(columns)
        unchanged == [rows |-> <<>>, columns |-> columns, pager |-> old_pager]
    IN  IF base.kind = "raise" THEN unchanged @@ [out |-> base, slice |-> <<>>]
        ELSE IF ord.kind = "raise" THEN unchanged @@ [out |-> ord, slice |-> <<>>]
        ELSE LET slice   == Slice(result, offset, limit)
                 visible == Table_columns(ord.columns)
                 made    == [i \in DOMAIN slice |-> select_row(i - 1, slice[i], visible)]
                 count   == Table_count(filters, ord.columns, args, records).count
             IN  IF \E i \in DOMAIN made : ~made[i].ok
                 THEN [rows |-> <<>>, columns |-> ord.columns, pager |-> old_pager,
                       out |-> Raised("NameError"), slice |-> slice]
                 ELSE [rows |-> [i \in DOMAIN made |-> made[i].v],
                       columns |-> ord.columns,
                       pager |-> Pager_init(PyInt(limit), PyInt(offset), PyInt(count),
                                            PyInt(10)).obj,
                       out |-> [kind |-> "return", value |-> "self"], slice |-> slice]

\* Table.query: the filtered base query with the order clauses.
Table_query(filters, columns, args) ==
    LET base == build_base_query(filters, columns, args)
        ord  == Table_order_queries(columns)
    IN  IF base.kind = "raise" THEN [columns |-> columns, out |-> base]
        ELSE IF ord.kind = "raise" THEN [columns |-> columns, out |-> ord]
        ELSE [columns |-> ord.columns,
              out |-> [kind |-> "ok", where |-> base.where, order |-> ord.order]]

-----------------------------------------------------------------------------
(* Specification of the Table: a table is declared for a request over a     *)
(* data source; filters are added, the query is built, rows are selected    *)
(* and counted.  An exception leaves the table to its caller, who may go on *)
(* using it.                                                                *)

MaxFilters == 2     \* filters added to a table (each filter once)
MaxRecords == 2     \* records of a non-empty data source

TableAttrs == {"name", "age"}

\* The filters a column of the given attribute is declared with.
FiltersOf(attr) ==
    CASE attr = "name" -> <<Ilike(TableClass, "name")>>
      [] attr = "age"  -> <<Equal(TableClass, "age", "int")>>
      [] OTHER         -> <<>>

\* The order_by arguments the columns of a table are declared with.
TableOrderBys == {PyNone, PyStr(<<"name.asc">>)}

\* The tables declared: at most MaxColumns columns on distinct attributes,
\* each visible or hidden, all given the same order_by argument.
TableColumns ==
    UNION {{[i \in DOMAIN attrs |->
                Column(attrs[i], attrs[i], order_by, FiltersOf(attrs[i]), shown[i])] :
               shown \in [DOMAIN attrs -> BOOLEAN], order_by \in TableOrderBys} :
           attrs \in DistinctLists(TableAttrs, MaxColumns)}

TableRequests ==
    {RequestArgs(None, None, None),
     RequestArgs("rock", "ab", "name"),
     RequestArgs("punk", "12", "age")}

StoredRecords ==
    <<[name |-> "Abc",  age |-> "12", genre |-> "rock"],
      [name |-> "12ab", age |-> "7",  genre |-> "all"],
      [name |-> "xyz",  age |-> "12", genre |-> "jazz"],
      [name |-> "Abc",  age |-> "7",  genre |-> "punk"]>>

TableFilters ==
    {SelectFilter(TableClass, "genre", <<Choice("rock"), Choice("jazz")>>, None),
     IlikeSet,
     Limit}

SelectOffsets == {0, 1}
SelectLimits  == {1, 10}

InitTable ==
    /\ request_args \in TableRequests
    /\ t_columns \in TableColumns
    /\ t_filters = <<>>
    /\ rows = <<>>
    /\ pager = PagerObject(1, 0, 0, 10)
    /\ session \in {<<>>, SubSeq(StoredRecords, 1, MaxRecords)}
    /\ call = NoCall

\* Table.add_filter
AddFilter ==
    /\ Len(t_filters) < MaxFilters
    /\ \E f \in TableFilters \ Range(t_filters) :
          /\ t_filters' = Append(t_filters, f)
          /\ call' = [op |-> "Table.add_filter", out |-> ReturnedNone]
    /\ UNCHANGED <<request_args, t_columns, rows, pager, session>>

\* Table.select: the data source answers the built query with one of the
\* sequences the order clauses allow.  The call is recorded as made again
\* when the operation before it was a select with the same offset and limit.
Select ==
    /\ \E offset \in SelectOffsets, limit \in SelectLimits :
       \E base \in {build_base_query(t_filters, t_columns, request_args)},
          ord \in {Table_order_queries(t_columns)} :
       \E matching \in {IF base.kind = "ok" THEN Selected(session, base.where) ELSE <<>>},
          order \in {IF ord.kind = "ok" THEN ord.order ELSE <<>>} :
       \E result \in QueryResults(matching, order) :
       \E after \in {Table_select(offset, limit, t_filters, t_columns, request_args,
                                  session, pager, result)} :
          /\ rows' = after.rows
          /\ t_columns' = after.columns
          /\ pager' = after.pager
          /\ call' = [op |-> "Table.select", offset |-> offset, limit |-> limit,
                      before |-> t_columns, order |-> order, slice |-> after.slice,
                      out |-> after.out,
                      again |-> /\ call.op = "Table.select"
                                /\ call.offset = offset /\ call.limit = limit]
    /\ UNCHANGED <<request_args, t_filters, session>>

\* Table.count
Count ==
    /\ call' = [op |-> "Table.count",
                out |-> Table_count(t_filters, t_columns, request_args, session)]
    /\ UNCHANGED <<request_args, t_columns, t_filters, rows, pager, session>>

\* Table.query (and Table.__query__)
Query ==
    /\ \E after \in {Table_query(t_filters, t_columns, request_args)} :
          /\ t_columns' = after.columns
          /\ call' = [op |-> "Table.query", before |-> t_columns,
                      order |-> IF after.out.kind = "ok" THEN after.out.order ELSE <<>>,
                      out |-> after.out]
    /\ UNCHANGED <<request_args, t_filters, rows, pager, session>>

NextTable == AddFilter \/ Select \/ Count \/ Query

SpecTable == InitTable /\ [][NextTable]_vars

Spec == SpecTable

\* The operation built the ordered query: it is query or select, and the
\* filters of the table evaluated without raising.
BuiltOrderedQuery ==
    /\ call.op \in {"Table.query", "Table.select"}
    /\ build_base_query(t_filters, call.before, request_args).kind = "ok"

Descending(attr) == [fn |-> DESCENDANT, attribute |-> attr]

\* C7 as stated: when no declared column has a direction, the ordered query
\* is ordered by the first declared column, descending, that column's
\* order_by becomes descending and every other column's stays none.  (Stated
\* for the tables that have a visible column.)
C7_FallbackOnFirstDeclared ==
    (/\ BuiltOrderedQuery
     /\ \E i \in DOMAIN call.before : call.before[i].visible
     /\ \A i \in DOMAIN call.before : call.before[i].order_by = None)
    => /\ call.order = <<Descending(call.before[1].attr)>>
       /\ t_columns[1].order_by = DESCENDANT
       /\ \A i \in DOMAIN t_columns : i # 1 => t_columns[i].order_by = None

\* C7 amended: when no visible column has a direction, the ordered query is
\* ordered by the first visible column, descending, that column's order_by
\* becomes descending and every other column, hidden ones included, is left
\* as it was; a table without a visible column fails with IndexError and
\* is left as it was.
C7_FallbackOnFirstVisible ==
    (/\ BuiltOrderedQuery
     /\ \A i \in DOMAIN call.before :
           call.before[i].visible => call.before[i].order_by = None)
    => LET shown == {i \in DOMAIN call.before : call.before[i].visible}
           first == CHOOSE i \in shown : \A j \in shown : i <= j
       IN  IF shown = {}
           THEN call.out = Raised("IndexError") /\ t_columns = call.before
           ELSE /\ call.order = <<Descending(call.before[first].attr)>>
                /\ t_columns = [call.before EXCEPT ![first].order_by = DESCENDANT]

\* The fallback applied to a table whose first declared column is hidden.
C7_Witness ==
    /\ call.op = "Table.query"
    /\ call.out.kind = "ok"
    /\ Len(call.before) = 2
    /\ ~call.before[1].visible
    /\ call.before[2].order_by = None
    /\ t_columns[2].order_by = DESCENDANT
    /\ t_columns[1].order_by = None

\* The rows select is to leave for the records of a slice: one Row per
\* record, one Cell per visible column.
RowsFor(slice, visible) ==
    [i \in DOMAIN slice |->
        [j \in DOMAIN visible |-> Cell(j - 1, i - 1, slice[i], visible[j].attr)]]

\* C10: when the filters of the table evaluate without raising, select
\* returns the table, rows holds one Row per record of the offset/limit slice
\* of the query, each with one Cell per visible column, and pager is rebuilt
\* from limit, offset and the table's current count.  (Stated for the tables
\* that have a visible column.)
C10_SelectPostcondition ==
    (/\ call.op = "Table.select"
     /\ \E i \in DOMAIN call.before : call.before[i].visible
     /\ build_base_query(t_filters, call.before, request_args).kind = "ok")
    => /\ call.out = [kind |-> "return", value |-> "self"]
       /\ rows = RowsFor(call.slice, Table_columns(t_columns))
       /\ pager = PagerObject(call.limit, call.offset,
                              Table_count(t_filters, t_columns, request_args, session).count,
                              10)

CountOfKept(outcomes) ==
    Cardinality({n \in DOMAIN session :
                    \A i \in DOMAIN outcomes :
                        outcomes[i].kind = "pred" => Holds(outcomes[i].q, session[n])})

\* The outcome of a filter of the table as the claim describes it: the
\* combined filter is the OR of the active substring searches.
StatedOutcome(f) ==
    CASE f.class = "IlikeSet" -> OrOfActive(OutcomesOf({"Ilike", "IlikeAlias"}))
      [] f.class = "Limit"    -> ReturnedNone
      [] OTHER                -> Primitive_query(f, request_args)

\* C12 as stated: count equals the number of stored records satisfying the
\* predicates of all filters of the table, a combined filter contributing the
\* OR of the active substring searches.  (Stated for the tables whose filters
\* evaluate without raising.)
C12_CountIsConjunctionWithSubstringOr ==
    (/\ call.op = "Table.count"
     /\ build_base_query(t_filters, t_columns, request_args).kind = "ok")
    => call.out = [kind |-> "ok",
                   count |-> CountOfKept([i \in DOMAIN t_filters |->
                                             StatedOutcome(t_filters[i])])]

\* C12 amended: when a filter of the table raises, count raises the exception
\* of the first such filter; otherwise count equals the number of stored
\* records satisfying the predicates of all filters currently in the filter
\* list (filters yielding no predicate are skipped), where a combined filter
\* contributes what IlikeSet returns: the OR of the predicates of the active
\* Ilike, IlikeAlias, Equal and EqualAlias filters of the declared columns.
C12_CountIsConjunctionOfFilterPredicates ==
    call.op = "Table.count"
    => LET outcomes == [i \in DOMAIN t_filters |->
                           Filter_query(t_filters[i], t_columns, request_args)]
           raising  == {i \in DOMAIN outcomes : outcomes[i].kind = "raise"}
       IN  IF raising # {}
           THEN call.out = outcomes[CHOOSE i \in raising : \A j \in raising : i <= j]
           ELSE call.out = [kind |-> "ok", count |-> CountOfKept(outcomes)]

\* A count over two filters that both yield a predicate, the first keeping
\* both stored records and the second only one of them.
C12_Witness ==
    /\ call.op = "Table.count"
    /\ Len(t_filters) = 2
    /\ Len(session) = 2
    /\ \A i \in 1..2 :
          Filter_query(t_filters[i], t_columns, request_args).kind = "pred"
    /\ \A n \in 1..2 :
          Holds(Filter_query(t_filters[1], t_columns, request_args).q, session[n])
    /\ call.out = [kind |-> "ok", count |-> 1]

\* The filter on a column attribute that an alias filter on the table's own
\* search target corresponds to: Ilike for IlikeAlias, Equal for EqualAlias,
\* on the attribute named as the alias attribute.
Counterpart(f) ==
    IF f.class = "IlikeAlias" THEN Ilike(TableClass, f.alias_attr.name)
    ELSE Equal(TableClass, f.alias_attr.name, f.type_)

\* C13: for every request, absent and empty words included, an alias filter
\* on the search target of the table yields a predicate exactly when its
\* counterpart on the attribute of the same name would, that is exactly
\* when the type parameter equals the attribute name.
C13_AliasActivatesAsCounterpart ==
    (/\ call.op \in {"IlikeAlias.__query__", "EqualAlias.__query__"}
     /\ call.f.identifier = camel_to_underscore(TableClass))
    => /\ call.out.kind = "pred"
             <=> Primitive_query(Counterpart(call.f), request_args).kind = "pred"
       /\ call.out.kind = "pred" <=> TypeParamOf(call.f) = OwnName(call.f)

\* C14: for count >= 0, limit > 0, offset >= 0 and padding > 0 the emitted
\* page numbers are strictly increasing, every Page has offset = limit *
\* (number - 1), and whenever the current page floor(offset / limit) + 1 is
\* at most max(pageCount, 1) it is among the emitted pages and exactly one
\* emitted Page is selected.
C14_WindowHoldsCurrentPage ==
    (/\ call.op = "Pager.pages"
     /\ pager.count >= 0 /\ pager.limit > 0 /\ pager.offset >= 0 /\ pager.padding > 0)
    => LET pageCount   == CeilDiv(pager.count, pager.limit)
           currentPage == FloorDiv(pager.offset, pager.limit) + 1
           last        == IF pageCount > 1 THEN pageCount ELSE 1
       IN  /\ call.out.kind = "ok"
           /\ \A i, j \in DOMAIN call.out.pages :
                 i < j => call.out.pages[i].number < call.out.pages[j].number
           /\ \A i \in DOMAIN call.out.pages :
                 call.out.pages[i].offset = pager.limit * (call.out.pages[i].number - 1)
           /\ currentPage <= last
                 => /\ \E i \in DOMAIN call.out.pages :
                          call.out.pages[i].number = currentPage
                    /\ Cardinality({i \in DOMAIN call.out.pages :
                                       call.out.pages[i].selected}) = 1

====
